---- MODULE Spec2Model ----
(***************************************************************************)
(* gtree: a Git-aware directory tree utility.                              *)
(*                                                                         *)
(* The module models                                                       *)
(*   - src/gtree/tree_renderer.py : TreeRenderer (build_tree_structure,    *)
(*     render_tree / render_node, get_recency_color),                      *)
(*   - src/gtree/git_repo.py      : GitRepo (the five subprocess calls),   *)
(*   - src/gtree/cli.py           : main.                                  *)
(*                                                                         *)
(* A Python str is a sequence of one-character strings, so that splitting, *)
(* joining, prefix tests and code-point ordering are computed and not      *)
(* assumed.  A few texts that the program never looks into (a date, a      *)
(* colour escape, a number) are one-element sequences.                     *)
(*                                                                         *)
(* An uncaught Python exception is a result with ok = FALSE (for the tree  *)
(* functions) or the outcome "traceback" (for main).  subprocess.run is    *)
(* taken to start its process: a git that is not installed or a missing    *)
(* working directory (OSError) is not part of the model.                   *)
(***************************************************************************)
EXTENDS Integers, Sequences, FiniteSets, TLC

VARIABLES
    pc,          \* position of the run (main) or of the harness (TreeSpec)
    args,        \* the parsed command line (cli.py:72) / the call's arguments
    files,       \* the working file list
    metadata,    \* path -> metadata record (a Python dict)
    tree,        \* result of build_tree_structure (TreeSpec)
    rendered,    \* result of render_tree
    now,         \* the day datetime.now() returned to the renderer
    proc,        \* the latest subprocess.run of the function being executed:
                 \* running while pc is a wait position, ended otherwise
    calls,       \* every subprocess.run issued so far, in order
    idx,         \* loop index inside get_file_metadata
    events,      \* everything printed so far, in order, with its stream
    outcome      \* how the run ended ("running" until it does)

vars == <<pc, args, files, metadata, tree, rendered, now, proc, calls,
          idx, events, outcome>>

----------------------------------------------------------------------------
(* Bounds of the model *)

\* longest file list handed to build_tree_structure / render_tree
MaxFiles == 3
\* most lines `git ls-files` prints in a run of main
MaxListed == 2

----------------------------------------------------------------------------
(* Python str *)

\* ord(c) for the characters the model uses
Ord(c) ==
    CASE c = " " -> 32 [] c = "." -> 46 [] c = "/" -> 47 [] c = "_" -> 95
      [] c = "a" -> 97 [] c = "b" -> 98 [] c = "c" -> 99 [] c = "e" -> 101
      [] c = "f" -> 102 [] c = "h" -> 104 [] c = "i" -> 105 [] c = "l" -> 108
      [] c = "n" -> 110 [] c = "p" -> 112 [] c = "s" -> 115 [] c = "t" -> 116
      [] c = "y" -> 121

\* s < t for two str: code-point lexicographic, a proper prefix is smaller
RECURSIVE StrLess(_, _)
StrLess(s, t) ==
    IF t = <<>> THEN FALSE
    ELSE IF s = <<>> THEN TRUE
    ELSE IF Head(s) = Head(t) THEN StrLess(Tail(s), Tail(t))
    ELSE Ord(Head(s)) < Ord(Head(t))

\* s.startswith(p)
StartsWith(s, p) == Len(s) >= Len(p) /\ SubSeq(s, 1, Len(p)) = p

\* s.endswith(p)
EndsWith(s, p) ==
    Len(s) >= Len(p) /\ SubSeq(s, Len(s) - Len(p) + 1, Len(s)) = p

\* sep.join(parts)
RECURSIVE Join(_, _)
Join(parts, sep) ==
    IF parts = <<>> THEN <<>>
    ELSE IF Len(parts) = 1 THEN parts[1]
    ELSE parts[1] \o sep \o Join(Tail(parts), sep)

\* s.split(sep) for a one-character sep: the pieces between separators
RECURSIVE SplitAcc(_, _, _, _)
SplitAcc(s, sep, piece, acc) ==
    IF s = <<>> THEN Append(acc, piece)
    ELSE IF Head(s) = sep THEN SplitAcc(Tail(s), sep, <<>>, Append(acc, piece))
    ELSE SplitAcc(Tail(s), sep, Append(piece, Head(s)), acc)

Split(s, sep) == SplitAcc(s, sep, <<>>, <<>>)

ToSet(seq) == {seq[i] : i \in 1..Len(seq)}

\* the reserved keys of a tree node, and the prefix that hides a key
IS_FILE == <<"_", "_", "i", "s", "_", "f", "i", "l", "e", "_", "_">>
PATH == <<"_", "_", "p", "a", "t", "h", "_", "_">>
DUNDER == <<"_", "_">>
SLASH == <<"/">>
UNKNOWN == <<"unknown">>

\* Path(file_path).parts for a relative POSIX path: the segments between
\* slashes, empty and "." segments dropped
IsSegment(piece) == piece # <<>> /\ piece # <<".">>
PathParts(file_path) == SelectSeq(Split(file_path, "/"), IsSegment)

----------------------------------------------------------------------------
(* The tree: a nested Python dict.                                         *)
(* It is held flat, as a function from the key sequence that leads to a    *)
(* value (from the root dict) to that value; the root dict itself is the   *)
(* empty key sequence and is not in the domain.  A value is a dict, True   *)
(* or a str, whatever key it sits under; children and the two reserved     *)
(* keys share one key space, as in the code.                               *)

DictVal == [kind |-> "dict", str |-> <<>>]
TrueVal == [kind |-> "True", str |-> <<>>]
StrVal(s) == [kind |-> "str", str |-> s]

EmptyTree == [a \in {} |-> DictVal]

IsProperPrefix(p, q) == Len(p) < Len(q) /\ SubSeq(q, 1, Len(p)) = p

\* `key in node` for the dict at address node
KeyIn(t, node, key) == Append(node, key) \in DOMAIN t

\* node[key] = val : replaces whatever was under the key, subtree included
SetItem(t, node, key, val) ==
    LET a == Append(node, key)
    IN [x \in {y \in DOMAIN t : ~IsProperPrefix(a, y)} \cup {a} |->
          IF x = a THEN val ELSE t[x]]

\* the keys of the dict at address node
Keys(t, node) ==
    {a[Len(a)] : a \in {y \in DOMAIN t : Len(y) = Len(node) + 1
                                          /\ SubSeq(y, 1, Len(node)) = node}}

Built(t) == [ok |-> TRUE, tree |-> t]
BuildRaised == [ok |-> FALSE, tree |-> EmptyTree]

\* One pass of the loop body of build_tree_structure for parts[i..]:
\* create the missing key, then mark the leaf or step into the directory.
\* A value that is not a dict under the key raises TypeError, at the item
\* assignment of the leaf or in the next pass of the loop.
RECURSIVE insert_parts(_, _, _, _, _)
insert_parts(t, current, parts, i, file_path) ==
    LET part == parts[i]
        child == Append(current, part)
        t1 == IF KeyIn(t, current, part) THEN t
              ELSE SetItem(t, current, part, DictVal)
    IN IF t1[child].kind # "dict" THEN BuildRaised
       ELSE IF i = Len(parts)
       THEN Built(SetItem(SetItem(t1, child, IS_FILE, TrueVal),
                          child, PATH, StrVal(file_path)))
       ELSE insert_parts(t1, child, parts, i + 1, file_path)

\* the body of `for file_path in files`
insert_file(t, file_path) ==
    LET parts == PathParts(file_path)
    IN IF parts = <<>> THEN Built(t)
       ELSE insert_parts(t, <<>>, parts, 1, file_path)

RECURSIVE build_from(_, _)
build_from(t, fs) ==
    IF fs = <<>> THEN Built(t)
    ELSE LET r == insert_file(t, Head(fs))
         IN IF r.ok THEN build_from(r.tree, Tail(fs)) ELSE BuildRaised

build_tree_structure(fs) == build_from(EmptyTree, fs)

----------------------------------------------------------------------------
(* Rendering *)

RED == <<"ESC[91m">>
ORANGE == <<"ESC[93m">>
YELLOW == <<"ESC[92m">>
GREEN == <<"ESC[94m">>
RESET == <<"ESC[0m">>

\* the dates of the model and the day number datetime.strptime gives each
\* (day of the year 2024); any other text raises ValueError
DATE_A == <<"2024-03-24">>
DATE_B == <<"2024-01-01">>
ParsableDates == {DATE_A, DATE_B}
DayOf(date_str) == IF date_str = DATE_A THEN 84 ELSE 1

get_recency_color(use_colors, date_str, today) ==
    IF ~use_colors \/ date_str = UNKNOWN THEN <<>>
    ELSE IF date_str \notin ParsableDates THEN <<>>
    ELSE LET days_ago == today - DayOf(date_str)
         IN IF days_ago <= 7 THEN RED
            ELSE IF days_ago <= 30 THEN ORANGE
            ELSE IF days_ago <= 90 THEN YELLOW
            ELSE GREEN

\* a metadata record is a dict with the optional keys last_commit, contributors
EmptyDict == [k \in {} |-> <<>>]
NoMetadata == [f \in {} |-> EmptyDict]

\* metadata.get(file_path, {})
MetaGet(md, file_path) ==
    IF file_path \in DOMAIN md THEN md[file_path] ELSE EmptyDict

\* the box-drawing characters are written by their code points
LastGlyph == <<"U+2514", "U+2500", "U+2500", " ">>
MidGlyph == <<"U+251C", "U+2500", "U+2500", " ">>
BlankUnit == <<" ", " ", " ", " ">>
BarUnit == <<"U+2502", " ", " ", " ">>

\* connector = the last glyph if is_last else the middle glyph
Connector(is_last) == IF is_last THEN LastGlyph ELSE MidGlyph

\* faulty variant: the two indentation units exchanged
NewPrefix_Swapped(prefix, is_last) ==
    prefix \o (IF is_last THEN BarUnit ELSE BlankUnit)
\* new_prefix = prefix + ("    " if is_last else a bar and three spaces)
NewPrefix(prefix, is_last) ==
    prefix \o (IF is_last THEN BlankUnit ELSE BarUnit)

\* the text after a file's name (lines 77-90)
FileInfo(file_meta, include_contributors, use_colors, today) ==
    LET date_part ==
            IF "last_commit" \in DOMAIN file_meta
            THEN LET date_str == file_meta["last_commit"]
                     color == get_recency_color(use_colors, date_str, today)
                     reset == IF color # <<>> THEN RESET ELSE <<>>
                 IN <<color \o <<"[">> \o date_str \o <<"]">> \o reset>>
            ELSE <<>>
        count_part ==
            IF include_contributors /\ "contributors" \in DOMAIN file_meta
            THEN LET count == file_meta["contributors"]
                     plural == IF count = 1 THEN "author" ELSE "authors"
                 IN << <<"(", ToString(count), " ", plural, ")">> >>
            ELSE <<>>
        info_parts == date_part \o count_part
    IN IF info_parts # <<>> THEN <<" ">> \o Join(info_parts, <<" ">>) ELSE <<>>

\* sorted(...) of a set of distinct names
RECURSIVE Sorted(_)
Sorted(names) ==
    IF names = {} THEN <<>>
    ELSE LET m == CHOOSE x \in names : \A y \in names : x = y \/ StrLess(x, y)
         IN <<m>> \o Sorted(names \ {m})

\* lines 105-109: the children of a directory node in render order
Children(t, node) == {k \in Keys(t, node) : ~StartsWith(k, DUNDER)}
Dirs(t, node) == {k \in Children(t, node) : ~KeyIn(t, Append(node, k), IS_FILE)}
Files(t, node) == {k \in Children(t, node) : KeyIn(t, Append(node, k), IS_FILE)}
\* faulty variant: files first, then directories
AllChildren_FilesFirst(t, node) ==
    Sorted(Files(t, node)) \o Sorted(Dirs(t, node))
AllChildren(t, node) == Sorted(Dirs(t, node)) \o Sorted(Files(t, node))

\* A rendered line: its text, and (for the statements about it) the node it
\* was emitted for and the path the file leaf carried.
Line(text, node, file_path) == [text |-> text, node |-> node, path |-> file_path]

Rendered(lines) == [ok |-> TRUE, lines |-> lines]
RenderRaised == [ok |-> FALSE, lines |-> <<>>]

\* render_node (lines 71-113); cfg holds metadata, include_contributors,
\* use_colors and today
RECURSIVE render_node(_, _, _, _, _, _)
RECURSIVE render_children(_, _, _, _, _, _)
render_node(t, cfg, node, name, prefix, is_last) ==
    IF KeyIn(t, node, IS_FILE)
    THEN  \* node["__path__"]: KeyError when absent; a dict under the key is
          \* unhashable in metadata.get and raises TypeError
          IF ~KeyIn(t, node, PATH) THEN RenderRaised
          ELSE IF t[Append(node, PATH)].kind = "dict" THEN RenderRaised
          ELSE LET file_path == t[Append(node, PATH)].str
                   file_meta == MetaGet(cfg.metadata, file_path)
                   info == FileInfo(file_meta, cfg.include_contributors,
                                    cfg.use_colors, cfg.today)
               IN Rendered(<<Line(prefix \o Connector(is_last) \o name \o info,
                                  node, file_path)>>)
    ELSE LET own == IF name # <<>>
                    THEN <<Line(prefix \o Connector(is_last) \o name \o SLASH,
                                node, <<>>)>>
                    ELSE <<>>
             new_prefix == IF name # <<>> THEN NewPrefix(prefix, is_last)
                           ELSE prefix
             below == render_children(t, cfg, node, AllChildren(t, node), 1,
                                      new_prefix)
         IN IF below.ok THEN Rendered(own \o below.lines) ELSE RenderRaised

\* the loop of lines 111-113 from position i on
render_children(t, cfg, node, all_children, i, new_prefix) ==
    IF i > Len(all_children) THEN Rendered(<<>>)
    ELSE LET child_name == all_children[i]
             is_last_child == (i = Len(all_children))
             first == render_node(t, cfg, Append(node, child_name), child_name,
                                  new_prefix, is_last_child)
         IN IF ~first.ok THEN RenderRaised
            ELSE LET rest == render_children(t, cfg, node, all_children, i + 1,
                                             new_prefix)
                 IN IF rest.ok THEN Rendered(first.lines \o rest.lines)
                    ELSE RenderRaised

Texts(lines) == [i \in 1..Len(lines) |-> lines[i].text]

\* render_tree (lines 61-116): the lines, and the text "\n".join(lines)
render_tree(fs, md, include_contributors, use_colors, today) ==
    LET built == build_tree_structure(fs)
        cfg == [metadata |-> md, include_contributors |-> include_contributors,
                use_colors |-> use_colors, today |-> today]
    IN IF ~built.ok THEN [ok |-> FALSE, lines |-> <<>>, text |-> <<>>]
       ELSE LET r == render_node(built.tree, cfg, <<>>, <<>>, <<>>, TRUE)
            IN IF r.ok
               THEN [ok |-> TRUE, lines |-> r.lines,
                     text |-> Join(Texts(r.lines), <<"\n">>)]
               ELSE [ok |-> FALSE, lines |-> <<>>, text |-> <<>>]

----------------------------------------------------------------------------
(* TreeSpec: build_tree_structure and render_tree applied to every file    *)
(* list of at most MaxFiles distinct paths out of TreePaths, in every      *)
(* order, with every metadata profile.                                     *)

A == <<"a">>
B == <<"b">>
INIT_PY == <<"_", "_", "i", "n", "i", "t", "_", "_", ".", "p", "y">>

\* the path text of a segment list
P(segments) == Join(segments, SLASH)

TreePaths ==
    { P(<<A>>), P(<<B>>), P(<<A, A>>), P(<<A, B>>), P(<<B, A>>),
      P(<<A, B, A>>), P(<<A, INIT_PY>>), P(<<A, IS_FILE>>) }

\* the days datetime.now() may fall on (day of the year 2024)
Nows == {91, 92}

\* every list of n distinct elements of S
RECURSIVE Orderings(_, _)
Orderings(S, n) ==
    IF n = 0 THEN {<<>>}
    ELSE UNION { {<<x>> \o rest : rest \in Orderings(S \ {x}, n - 1)} : x \in S }

\* 1 + the number of paths of S below f in code-point order
Rank(S, f) == 1 + Cardinality({g \in S : StrLess(g, f)})

\* a metadata record that differs from file to file
MetaOfRank(k) ==
    IF k = 1 THEN [last_commit |-> DATE_A, contributors |-> 1]
    ELSE IF k = 2 THEN [last_commit |-> DATE_B, contributors |-> 2]
    ELSE [last_commit |-> UNKNOWN, contributors |-> k]

MetadataProfiles(S) ==
    { NoMetadata,
      [f \in S |-> EmptyDict],
      [f \in S |-> [last_commit |-> UNKNOWN]],
      [f \in S |-> MetaOfRank(Rank(S, f))] }

NoCall == [cmd |-> "none"]

TreeInit ==
    /\ pc = "tree_input"
    /\ \E n \in 1..MaxFiles : files \in Orderings(TreePaths, n)
    /\ metadata \in MetadataProfiles(ToSet(files))
    /\ args \in [include_contributors : BOOLEAN, use_colors : BOOLEAN]
    /\ tree = Built(EmptyTree)
    /\ rendered = [ok |-> TRUE, lines |-> <<>>, text |-> <<>>]
    /\ now = 0
    /\ proc = NoCall
    /\ calls = <<>>
    /\ idx = 0
    /\ events = <<>>
    /\ outcome = "running"

\* tree = self.build_tree_structure(files)
TreeBuild ==
    /\ pc = "tree_input"
    /\ tree' = build_tree_structure(files)
    /\ pc' = "tree_built"
    /\ UNCHANGED <<args, files, metadata, rendered, now, proc, calls, idx,
                   events, outcome>>

\* renderer.render_tree(files, metadata, include_contributors)
TreeRender ==
    /\ pc = "tree_built"
    /\ \E today \in Nows :
         /\ now' = today
         /\ rendered' = render_tree(files, metadata, args.include_contributors,
                                    args.use_colors, today)
    /\ pc' = "tree_rendered"
    /\ UNCHANGED <<args, files, metadata, tree, proc, calls, idx, events,
                   outcome>>

TreeNext == TreeBuild \/ TreeRender

TreeSpec == TreeInit /\ [][TreeNext]_vars

----------------------------------------------------------------------------
(* Statements about the tree (checked under TreeSpec) *)

Last(s) == s[Len(s)]
Parent(node) == SubSeq(node, 1, Len(node) - 1)
LineCount == Len(rendered.lines)
NodeOf(i) == rendered.lines[i].node
TextOf(i) == rendered.lines[i].text
NameOf(i) == Last(NodeOf(i))
IsDirLine(i) == Last(TextOf(i)) = "/"
IsFileLine(i) == ~IsDirLine(i)
RenderDone == pc = "tree_rendered"

\* no path of S is a proper segment-prefix of another
PrefixFree(S) ==
    \A p, q \in S : ~IsProperPrefix(PathParts(p), PathParts(q))

\* C1: round trip. For a prefix-free set of paths, whatever the segment names,
\* the file lines render_tree emits carry exactly the input paths, each once.
C1_RoundTrip ==
    (RenderDone /\ PrefixFree(ToSet(files))) =>
        /\ rendered.ok
        /\ \A f \in ToSet(files) :
             Cardinality({i \in 1..LineCount :
                            IsFileLine(i) /\ rendered.lines[i].path = f}) = 1
        /\ \A i \in 1..LineCount :
             IsFileLine(i) => rendered.lines[i].path \in ToSet(files)

\* C2: order independence. Every other ordering of the same paths gives the
\* same tree and, with the same metadata and flags, the same output text.
C2_OrderIndependent ==
    RenderDone =>
        \A other \in Orderings(ToSet(files), Len(files)) :
            /\ build_tree_structure(other) = tree
            /\ LET r == render_tree(other, metadata, args.include_contributors,
                                    args.use_colors, now)
               IN r.ok = rendered.ok /\ r.text = rendered.text

\* C3: sibling ordering. Among the lines of one directory's children every
\* sub-directory line precedes every file line and names ascend strictly
\* within each group; a line below the root follows its parent's line with
\* only lines of that parent's subtree in between.
C3_SiblingOrder ==
    (RenderDone /\ rendered.ok) =>
        /\ \A i, j \in 1..LineCount :
             (i < j /\ Parent(NodeOf(i)) = Parent(NodeOf(j))) =>
                 \/ IsDirLine(i) /\ IsFileLine(j)
                 \/ IsDirLine(i) = IsDirLine(j) /\ StrLess(NameOf(i), NameOf(j))
        /\ \A j \in 1..LineCount :
             Len(NodeOf(j)) >= 2 =>
                 \E i \in 1..(j - 1) :
                     /\ NodeOf(i) = Parent(NodeOf(j))
                     /\ IsDirLine(i)
                     /\ \A k \in (i + 1)..j : IsProperPrefix(NodeOf(i), NodeOf(k))

\* a directory printed before a file of a smaller name, with its subtree
C3_Witness ==
    /\ RenderDone /\ rendered.ok
    /\ \E i, j \in 1..LineCount :
         /\ i < j /\ Parent(NodeOf(i)) = Parent(NodeOf(j))
         /\ IsDirLine(i) /\ IsFileLine(j)
         /\ StrLess(NameOf(j), NameOf(i))
         /\ Len(NodeOf(i)) >= 2

\* the node is the last of its siblings in render order
IsLastSibling(i) ==
    \A j \in (i + 1)..LineCount : Parent(NodeOf(j)) # Parent(NodeOf(i))

\* the line emitted for a node
LineIndexOf(node) == CHOOSE i \in 1..LineCount : NodeOf(i) = node

\* the indentation of a node: one unit for each ancestor at depth 1..d-1
RECURSIVE Indentation(_, _)
Indentation(node, k) ==
    IF k >= Len(node) THEN <<>>
    ELSE (IF IsLastSibling(LineIndexOf(SubSeq(node, 1, k)))
          THEN BlankUnit ELSE BarUnit) \o Indentation(node, k + 1)

\* C4: connector and indentation. Every line is d-1 units, one connector and
\* then the name; the k-th unit is blank iff the ancestor at depth k was the
\* last sibling; the connector is the last glyph iff the node is the last
\* sibling. No line is emitted for the root.
C4_Connectors ==
    (RenderDone /\ rendered.ok) =>
        \A i \in 1..LineCount :
            LET node == NodeOf(i)
                d == Len(node)
                lead == Indentation(node, 1)
                       \o (IF IsLastSibling(i) THEN LastGlyph ELSE MidGlyph)
                       \o NameOf(i)
            IN /\ d >= 1
               /\ Len(lead) = 4 * (d - 1) + 4 + Len(NameOf(i))
               /\ StartsWith(TextOf(i), lead)

\* a line at depth 3 under a last ancestor and then a non-last one
C4_Witness ==
    /\ RenderDone /\ rendered.ok
    /\ \E i \in 1..LineCount :
         /\ Len(NodeOf(i)) = 3
         /\ StartsWith(TextOf(i), BlankUnit \o BarUnit \o LastGlyph)
    /\ \E i \in 1..LineCount : StartsWith(TextOf(i), BlankUnit \o MidGlyph)

\* C10: file/directory collision. When the input holds p and a path below p,
\* in either insertion order the node of p holds the file marker next to the
\* child entries, p is printed as one file line with its own metadata, and
\* no line is printed for a path below p; nothing raises.
C10_Collision ==
    RenderDone =>
        \A p, q \in ToSet(files) :
            IsProperPrefix(PathParts(p), PathParts(q)) =>
                LET node == PathParts(p)
                    below == PathParts(q)[Len(node) + 1]
                IN /\ tree.ok
                   /\ KeyIn(tree.tree, node, IS_FILE)
                   /\ KeyIn(tree.tree, node, below)
                   /\ rendered.ok
                   /\ Cardinality({i \in 1..LineCount : NodeOf(i) = node}) = 1
                   /\ \A i \in 1..LineCount :
                        /\ NodeOf(i) = node =>
                             /\ IsFileLine(i)
                             /\ rendered.lines[i].path = p
                             /\ EndsWith(TextOf(i),
                                    Last(node) \o FileInfo(MetaGet(metadata, p),
                                        args.include_contributors,
                                        args.use_colors, now))
                        /\ ~IsProperPrefix(node, NodeOf(i))

----------------------------------------------------------------------------
(* GitRepo and main: one run of the command line tool (Spec).              *)
(* Each subprocess.run is two steps, the call and its end; what the        *)
(* process will do is fixed when it is started: "ok" (exit status 0 and a  *)
(* standard output), "fail" (CalledProcessError) or "late" (it is still    *)
(* running when any time limit passes, possibly for ever).                 *)

DefaultLimit == 1000
batch_size == 100
DateTimeout == 2
ContributorTimeout == 10

\* timeout=None is the empty sequence, timeout=n is <<n>>
NoTimeout == <<>>

NEWLINE == <<"\n">>
Whitespace == {" ", "\n", "\t"}

\* s.strip()
RECURSIVE LStrip(_)
LStrip(s) ==
    IF s # <<>> /\ Head(s) \in Whitespace THEN LStrip(Tail(s)) ELSE s

RECURSIVE RStrip(_)
RStrip(s) ==
    IF s # <<>> /\ Last(s) \in Whitespace
    THEN RStrip(SubSeq(s, 1, Len(s) - 1)) ELSE s

Strip(s) == LStrip(RStrip(s))

NonEmpty(s) == s # <<>>

\* [l.strip() for l in stdout.split("\n") if l.strip()]
StrippedLines(stdout) ==
    LET pieces == Split(stdout, "\n")
    IN SelectSeq([i \in 1..Len(pieces) |-> Strip(pieces[i])], NonEmpty)

\* the text a process prints for a list of lines, sep between two lines
Printed(lines, sep) ==
    IF lines = <<>> THEN <<>> ELSE Join(lines, sep) \o NEWLINE

\* what the repository tracks: the lines `git ls-files` / `git ls-tree` print
A_PY == <<"a", ".", "p", "y">>
PY == <<"p", "y">>
MainPaths == { A_PY, P(<<A, B>>), P(<<A, IS_FILE>>) }
\* a path `git log --name-only` names that was not asked about
OTHER_PATH == P(<<B>>)
SINCE == <<"2024-01-01">>
DEV == <<"dev">>
ALICE == <<"alice">>
BOB == <<"bob">>
Limits == {1, DefaultLimit}

\* every list of at most n elements of S
RECURSIVE ListsUpTo(_, _)
ListsUpTo(S, n) ==
    IF n = 0 THEN {<<>>}
    ELSE LET shorter == ListsUpTo(S, n - 1)
         IN shorter \cup {Append(l, x) : l \in shorter, x \in S}

\* the standard outputs a successful process may print, by command
Outputs(cmd) ==
    CASE cmd = "rev-parse" -> { Printed(<< <<".", "g", "i", "t">> >>, NEWLINE) }
      [] cmd \in {"ls-files", "ls-tree"} ->
           { Printed(l, NEWLINE) : l \in ListsUpTo(MainPaths, MaxListed) }
      [] cmd = "log-since" ->
           { Printed(Sorted(S), NEWLINE \o NEWLINE) :
               S \in SUBSET (MainPaths \cup {OTHER_PATH}) }
      [] cmd = "log-date" -> { <<>>, Printed(<<DATE_A>>, NEWLINE) }
      [] cmd = "log-authors" ->
           { <<>>, Printed(<<ALICE>>, NEWLINE),
             Printed(<<ALICE, BOB, ALICE>>, NEWLINE) }

\* the processes subprocess.run may find itself waiting for
Processes(cmd, file, timeout) ==
    { [cmd |-> cmd, file |-> file, timeout |-> timeout, result |-> "ok",
       stdout |-> out] : out \in Outputs(cmd) }
    \cup
    { [cmd |-> cmd, file |-> file, timeout |-> timeout, result |-> r,
       stdout |-> <<>>] : r \in {"fail", "late"} }

CallRecord(p) == [cmd |-> p.cmd, file |-> p.file, timeout |-> p.timeout]

\* subprocess.run(...) is entered
Run(cmd, file, timeout) ==
    /\ proc' \in Processes(cmd, file, timeout)
    /\ calls' = Append(calls, CallRecord(proc'))

\* the process ended by itself
Returned(cmd) == proc.cmd = cmd /\ proc.result \in {"ok", "fail"}
\* subprocess.run raised TimeoutExpired: only a call given a timeout can
TimedOut(cmd) ==
    proc.cmd = cmd /\ proc.result = "late" /\ proc.timeout # NoTimeout

Stderr(kind) == [stream |-> "stderr", kind |-> kind]
Stdout(kind) == [stream |-> "stdout", kind |-> kind]

\* sys.exit(1) after a message, or the end of main
Exit(how) == pc' = "exit" /\ outcome' = how

NothingPrinted == [ok |-> TRUE, lines |-> <<>>, text |-> <<>>]

Init ==
    /\ pc = "start"
    /\ args \in [fast : BOOLEAN, limit : Limits, contributors : BOOLEAN,
                 branch : {<<>>, DEV}, since : {<<>>, SINCE}, ext : {<<>>, PY},
                 json : BOOLEAN, no_color : BOOLEAN]
    /\ files = <<>>
    /\ metadata = NoMetadata
    /\ tree = Built(EmptyTree)
    /\ rendered = NothingPrinted
    /\ now = 0
    /\ proc = NoCall
    /\ calls = <<>>
    /\ idx = 0
    /\ events = <<>>
    /\ outcome = "running"

\* GitRepo.__init__ -> _check_git_repo: git rev-parse --git-dir, no timeout
CheckRepoCall ==
    /\ pc = "start"
    /\ Run("rev-parse", <<>>, NoTimeout)
    /\ pc' = "check_repo"
    /\ UNCHANGED <<args, files, metadata, tree, rendered, now, idx, events,
                   outcome>>

CheckRepoOk ==
    /\ pc = "check_repo" /\ Returned("rev-parse") /\ proc.result = "ok"
    /\ pc' = "list"
    /\ UNCHANGED <<args, proc, files, metadata, tree, rendered, now, calls, idx,
                   events, outcome>>

\* except CalledProcessError: print(...); sys.exit(1)
CheckRepoFail ==
    /\ pc = "check_repo" /\ Returned("rev-parse") /\ proc.result = "fail"
    /\ events' = Append(events, Stderr("not_a_git_repository"))
    /\ Exit("not_a_repository")
    /\ UNCHANGED <<args, proc, files, metadata, tree, rendered, now, calls, idx>>

\* get_tracked_files, lines 32-37: the command for the branch, if one is given
ListCmd(branch) == IF branch # <<>> THEN "ls-tree" ELSE "ls-files"

\* get_tracked_files: git ls-files / git ls-tree, no timeout
ListCall ==
    /\ pc = "list"
    /\ Run(ListCmd(args.branch), <<>>, NoTimeout)
    /\ pc' = "list_wait"
    /\ UNCHANGED <<args, files, metadata, tree, rendered, now, idx, events,
                   outcome>>

ListOk ==
    /\ pc = "list_wait" /\ Returned(ListCmd(args.branch)) /\ proc.result = "ok"
    /\ files' = StrippedLines(proc.stdout)
    /\ pc' = "tracked"
    /\ UNCHANGED <<args, proc, metadata, tree, rendered, now, calls, idx, events,
                   outcome>>

\* except CalledProcessError: print(...); return []
ListFail ==
    /\ pc = "list_wait" /\ Returned(ListCmd(args.branch)) /\ proc.result = "fail"
    /\ files' = <<>>
    /\ events' = Append(events, Stderr("error_getting_tracked_files"))
    /\ pc' = "tracked"
    /\ UNCHANGED <<args, proc, metadata, tree, rendered, now, calls, idx, outcome>>

\* main, lines 79-81
NoTrackedFiles ==
    /\ pc = "tracked" /\ files = <<>>
    /\ events' = Append(events, Stderr("no_tracked_files_found"))
    /\ Exit("no_tracked_files")
    /\ proc' = NoCall
    /\ UNCHANGED <<args, files, metadata, tree, rendered, now, calls,
                   idx>>

\* main, line 84: `if args.since` is false
SkipSince ==
    /\ pc = "tracked" /\ files # <<>> /\ args.since = <<>>
    /\ pc' = "ext"
    /\ proc' = NoCall
    /\ UNCHANGED <<args, files, metadata, tree, rendered, now, calls,
                   idx, events, outcome>>

\* filter_files_since_date: git log --since ... -- files, no timeout
SinceCall ==
    /\ pc = "tracked" /\ files # <<>> /\ args.since # <<>>
    /\ Run("log-since", <<>>, NoTimeout)
    /\ pc' = "since_wait"
    /\ UNCHANGED <<args, files, metadata, tree, rendered, now, idx, events,
                   outcome>>

\* [f for f in files if f in changed_files]
InChanged(fs, changed_files) ==
    LET Keep(f) == f \in changed_files IN SelectSeq(fs, Keep)

\* faulty variant: fail-closed: nothing survives a failed query
since_failed_Closed(fs) == <<>>
\* except CalledProcessError: return files
since_failed(fs) == fs

\* lines 139-142
since_filtered(fs, stdout) == InChanged(fs, ToSet(StrippedLines(stdout)))

SinceOk ==
    /\ pc = "since_wait" /\ Returned("log-since") /\ proc.result = "ok"
    /\ files' = since_filtered(files, proc.stdout)
    /\ pc' = "ext"
    /\ UNCHANGED <<args, proc, metadata, tree, rendered, now, calls, idx, events,
                   outcome>>

SinceFail ==
    /\ pc = "since_wait" /\ Returned("log-since") /\ proc.result = "fail"
    /\ files' = since_failed(files)
    /\ pc' = "ext"
    /\ UNCHANGED <<args, proc, metadata, tree, rendered, now, calls, idx, events,
                   outcome>>

\* main, lines 87-88
ext_filtered(fs, ext) ==
    IF ext # <<>>
    THEN LET Keep(f) == EndsWith(f, <<".">> \o ext) IN SelectSeq(fs, Keep)
    ELSE fs

\* main, lines 87-92: the extension filter leaves nothing (or nothing came
\* out of the date filter)
NoMatch ==
    /\ pc = "ext" /\ ext_filtered(files, args.ext) = <<>>
    /\ files' = <<>>
    /\ events' = Append(events, Stderr("no_files_match"))
    /\ Exit("no_match")
    /\ proc' = NoCall
    /\ UNCHANGED <<args, metadata, tree, rendered, now, calls, idx>>

SomeMatch ==
    /\ pc = "ext" /\ ext_filtered(files, args.ext) # <<>>
    /\ files' = ext_filtered(files, args.ext)
    /\ pc' = "metadata"
    /\ proc' = NoCall
    /\ UNCHANGED <<args, metadata, tree, rendered, now, calls, idx,
                   events, outcome>>

\* metadata = {file: {} for file in files}
EmptyRecords(fs) == [f \in ToSet(fs) |-> EmptyDict]

\* d[k] = v for a dict d
SetKey(d, k, v) == [x \in DOMAIN d \cup {k} |-> IF x = k THEN v ELSE d[x]]

\* faulty variant: the threshold itself already switches metadata off
AutoFast_AtLimit(fs, limit) == Len(fs) >= limit
\* main, line 98: len(files) > args.limit
AutoFast(fs, limit) == Len(fs) > limit

\* main, lines 95-97
FastMode ==
    /\ pc = "metadata" /\ args.fast
    /\ metadata' = EmptyRecords(files)
    /\ pc' = "output"
    /\ UNCHANGED <<args, files, tree, rendered, now, proc, calls, idx,
                   events, outcome>>

\* main, lines 98-108
AutoFastMode ==
    /\ pc = "metadata" /\ ~args.fast /\ AutoFast(files, args.limit)
    /\ events' = events \o <<Stderr("warning_fast_mode"), Stderr("hint_limit")>>
    /\ metadata' = EmptyRecords(files)
    /\ pc' = "output"
    /\ UNCHANGED <<args, files, tree, rendered, now, proc, calls, idx,
                   outcome>>

\* main, line 110 -> get_file_metadata, lines 52-56
CollectMetadata ==
    /\ pc = "metadata" /\ ~args.fast /\ ~AutoFast(files, args.limit)
    /\ metadata' = [f \in ToSet(files) |-> [last_commit |-> UNKNOWN]]
    /\ idx' = 1
    /\ pc' = "dates"
    /\ UNCHANGED <<args, files, tree, rendered, now, proc, calls, events,
                   outcome>>

\* lines 69-87: the progress line at the head of a batch, then
\* git log -1 --format=%cs -- file, timeout=2
DateCall ==
    /\ pc = "dates" /\ idx <= Len(files)
    /\ events' = IF (idx - 1) % batch_size = 0
                 THEN Append(events, Stderr("processing_files"))
                 ELSE events
    /\ Run("log-date", files[idx], <<DateTimeout>>)
    /\ pc' = "date_wait"
    /\ UNCHANGED <<args, files, metadata, tree, rendered, now, idx, outcome>>

\* faulty variant: an empty answer is stored as it is
date_of_Raw(stdout) == Strip(stdout)
\* lines 88-89: date if date else "unknown"
date_of(stdout) ==
    LET date == Strip(stdout) IN IF date # <<>> THEN date ELSE UNKNOWN

DateOk ==
    /\ pc = "date_wait" /\ Returned("log-date") /\ proc.result = "ok"
    /\ metadata' = [metadata EXCEPT ![proc.file] =
                      SetKey(@, "last_commit", date_of(proc.stdout))]
    /\ idx' = idx + 1
    /\ pc' = "dates"
    /\ UNCHANGED <<args, proc, files, tree, rendered, now, calls, events, outcome>>

\* except (CalledProcessError, TimeoutExpired): "unknown"
DateFail ==
    /\ pc = "date_wait" /\ Returned("log-date") /\ proc.result = "fail"
    /\ metadata' = [metadata EXCEPT ![proc.file] =
                      SetKey(@, "last_commit", UNKNOWN)]
    /\ idx' = idx + 1
    /\ pc' = "dates"
    /\ UNCHANGED <<args, proc, files, tree, rendered, now, calls, events, outcome>>

DateTimedOut ==
    /\ pc = "date_wait" /\ TimedOut("log-date")
    /\ metadata' = [metadata EXCEPT ![proc.file] =
                      SetKey(@, "last_commit", UNKNOWN)]
    /\ idx' = idx + 1
    /\ pc' = "dates"
    /\ UNCHANGED <<args, proc, files, tree, rendered, now, calls, events, outcome>>

\* lines 94-96: contributors were requested
StartContributors ==
    /\ pc = "dates" /\ idx > Len(files) /\ args.contributors
    /\ events' = Append(events, Stderr("getting_contributors"))
    /\ idx' = 1
    /\ pc' = "contributors"
    /\ proc' = NoCall
    /\ UNCHANGED <<args, files, metadata, tree, rendered, now, calls,
                   outcome>>

\* lines 94, 100: they were not
SkipContributors ==
    /\ pc = "dates" /\ idx > Len(files) /\ ~args.contributors
    /\ pc' = "output"
    /\ proc' = NoCall
    /\ UNCHANGED <<args, files, metadata, tree, rendered, now, calls,
                   idx, events, outcome>>

\* _get_contributor_count: git log --format=%an -- file, timeout=10
ContributorCall ==
    /\ pc = "contributors" /\ idx <= Len(files)
    /\ Run("log-authors", files[idx], <<ContributorTimeout>>)
    /\ pc' = "contributor_wait"
    /\ UNCHANGED <<args, files, metadata, tree, rendered, now, idx, events,
                   outcome>>

\* lines 113-116: len(set(...))
count_authors(stdout) == Cardinality(ToSet(StrippedLines(stdout)))

ContributorOk ==
    /\ pc = "contributor_wait" /\ Returned("log-authors")
    /\ proc.result = "ok"
    /\ metadata' = [metadata EXCEPT ![proc.file] =
                      SetKey(@, "contributors", count_authors(proc.stdout))]
    /\ idx' = idx + 1
    /\ pc' = "contributors"
    /\ UNCHANGED <<args, proc, files, tree, rendered, now, calls, events, outcome>>

\* except (CalledProcessError, TimeoutExpired): return 0
ContributorFail ==
    /\ pc = "contributor_wait" /\ Returned("log-authors")
    /\ proc.result = "fail"
    /\ metadata' = [metadata EXCEPT ![proc.file] =
                      SetKey(@, "contributors", 0)]
    /\ idx' = idx + 1
    /\ pc' = "contributors"
    /\ UNCHANGED <<args, proc, files, tree, rendered, now, calls, events, outcome>>

ContributorTimedOut ==
    /\ pc = "contributor_wait" /\ TimedOut("log-authors")
    /\ metadata' = [metadata EXCEPT ![proc.file] =
                      SetKey(@, "contributors", 0)]
    /\ idx' = idx + 1
    /\ pc' = "contributors"
    /\ UNCHANGED <<args, proc, files, tree, rendered, now, calls, events, outcome>>

ContributorsDone ==
    /\ pc = "contributors" /\ idx > Len(files)
    /\ pc' = "output"
    /\ proc' = NoCall
    /\ UNCHANGED <<args, files, metadata, tree, rendered, now, calls,
                   idx, events, outcome>>

\* main, lines 112-120
PrintJson ==
    /\ pc = "output" /\ args.json
    /\ rendered' = [ok |-> TRUE,
                    json |-> [i \in 1..Len(files) |->
                                [path |-> files[i],
                                 fields |-> MetaGet(metadata, files[i])]]]
    /\ events' = Append(events, Stdout("json"))
    /\ Exit("printed")
    /\ UNCHANGED <<args, files, metadata, tree, now, proc, calls, idx>>

\* main, lines 121-125
PrintTree ==
    /\ pc = "output" /\ ~args.json
    /\ \E today \in Nows :
         LET r == render_tree(files, metadata, args.contributors,
                              ~args.no_color, today)
         IN /\ r.ok
            /\ rendered' = r
            /\ now' = today
    /\ events' = Append(events, Stdout("tree"))
    /\ Exit("printed")
    /\ UNCHANGED <<args, files, metadata, tree, proc, calls, idx>>

\* render_tree raises (TypeError, KeyError): nothing catches it, the
\* interpreter prints the traceback and exits with status 1
RenderRaises ==
    /\ pc = "output" /\ ~args.json
    /\ \E today \in Nows :
         LET r == render_tree(files, metadata, args.contributors,
                              ~args.no_color, today)
         IN /\ ~r.ok
            /\ rendered' = r
            /\ now' = today
    /\ events' = Append(events, Stderr("traceback"))
    /\ Exit("traceback")
    /\ UNCHANGED <<args, files, metadata, tree, proc, calls, idx>>

Next ==
    \/ CheckRepoCall \/ CheckRepoOk \/ CheckRepoFail
    \/ ListCall \/ ListOk \/ ListFail
    \/ NoTrackedFiles \/ SkipSince
    \/ SinceCall \/ SinceOk \/ SinceFail
    \/ NoMatch \/ SomeMatch
    \/ FastMode \/ AutoFastMode \/ CollectMetadata
    \/ DateCall \/ DateOk \/ DateFail \/ DateTimedOut
    \/ StartContributors \/ SkipContributors
    \/ ContributorCall \/ ContributorOk \/ ContributorFail
    \/ ContributorTimedOut \/ ContributorsDone
    \/ PrintJson \/ PrintTree \/ RenderRaises

Spec == Init /\ [][Next]_vars

----------------------------------------------------------------------------
(* Statements about a run of main (checked under Spec) *)

\* the files named by the calls of one command, in call order
RECURSIVE FilesAsked(_, _)
FilesAsked(cs, cmd) ==
    IF cs = <<>> THEN <<>>
    ELSE (IF Head(cs).cmd = cmd THEN <<Head(cs).file>> ELSE <<>>)
         \o FilesAsked(Tail(cs), cmd)

PerFileCalls ==
    {i \in 1..Len(calls) : calls[i].cmd \in {"log-date", "log-authors"}}

Waiting ==
    pc \in {"check_repo", "list_wait", "since_wait", "date_wait",
            "contributor_wait"}
Collecting == pc \in {"dates", "date_wait", "contributors", "contributor_wait"}
AfterMetadata ==
    pc = "output" \/ (pc = "exit" /\ outcome \in {"printed", "traceback"})
Decided == Collecting \/ AfterMetadata
IsWarning(e) == e.stream = "stderr" /\ e.kind = "warning_fast_mode"
Warned == \E i \in 1..Len(events) : IsWarning(events[i])
StdoutEvents == {i \in 1..Len(events) : events[i].stream = "stdout"}

\* what a per-file query leaves in the record of its file
DateAnswer ==
    IF proc.result = "ok" /\ Strip(proc.stdout) # <<>>
    THEN Strip(proc.stdout) ELSE UNKNOWN
CountAnswer ==
    IF proc.result = "ok"
    THEN Cardinality({Strip(l) : l \in ToSet(Split(proc.stdout, "\n"))}
                     \ {<<>>})
    ELSE 0

\* the step from old to new changes nothing but key k of the record of file f
OnlyChanges(old, new, f, k) ==
    /\ DOMAIN new = DOMAIN old
    /\ \A g \in DOMAIN old \ {f} : new[g] = old[g]
    /\ DOMAIN new[f] = DOMAIN old[f] \cup {k}
    /\ \A x \in DOMAIN old[f] \ {k} : new[f][x] = old[f][x]

C5_State ==
    /\ Collecting \/ (AfterMetadata /\ ~args.fast /\ Len(files) <= args.limit) =>
         /\ DOMAIN metadata = ToSet(files)
         /\ \A f \in ToSet(files) : "last_commit" \in DOMAIN metadata[f]
    /\ (AfterMetadata /\ ~args.fast /\ Len(files) <= args.limit) =>
         /\ FilesAsked(calls, "log-date") = files
         /\ FilesAsked(calls, "log-authors") =
                (IF args.contributors THEN files ELSE <<>>)
         /\ \A f \in ToSet(files) :
              ("contributors" \in DOMAIN metadata[f]) = args.contributors

C5_Step ==
    /\ pc = "date_wait" =>
         /\ pc' = "dates" /\ idx' = idx + 1 /\ files' = files
         /\ OnlyChanges(metadata, metadata', proc.file, "last_commit")
         /\ metadata'[proc.file]["last_commit"] = DateAnswer
    /\ pc = "contributor_wait" =>
         /\ pc' = "contributors" /\ idx' = idx + 1 /\ files' = files
         /\ OnlyChanges(metadata, metadata', proc.file, "contributors")
         /\ metadata'[proc.file]["contributors"] = CountAnswer

\* C5: fail-soft metadata. get_file_metadata returns a record for exactly the
\* input files; every list entry is asked about once, in order, whatever its
\* query or another one did; a query leaves its date (or "unknown" when it
\* failed, timed out or printed nothing) and its count of distinct authors
\* (or 0) in the record of its own file and changes nothing else.
C5_FailSoft == []C5_State /\ [][C5_Step]_vars

\* the dates are in, the first file has one, and the last contributor query
\* timed out and left 0
C5_Witness ==
    /\ pc = "contributors" /\ idx > Len(files) /\ Len(files) >= 2
    /\ files[1] # files[2]
    /\ proc.cmd = "log-authors" /\ proc.result = "late"
    /\ metadata[files[1]]["last_commit"] = DATE_A
    /\ metadata[files[Len(files)]]["contributors"] = 0

\* C6: fast and auto-fast mode. With --fast, or with more files than --limit,
\* no per-file query is ever issued and every record is empty; without --fast
\* the warning is printed, before any output; with at most --limit files and
\* no --fast the metadata is collected and nothing is warned.
C6_FastMode ==
    /\ ~Decided => PerFileCalls = {} /\ ~Warned
    /\ (Decided /\ (args.fast \/ Len(files) > args.limit)) =>
         /\ PerFileCalls = {}
         /\ metadata = [f \in ToSet(files) |-> EmptyDict]
    /\ (Decided /\ ~args.fast /\ Len(files) > args.limit) =>
         /\ Warned
         /\ \A i \in StdoutEvents :
              \E j \in 1..(i - 1) : IsWarning(events[j])
    /\ (Decided /\ ~args.fast /\ Len(files) <= args.limit) =>
         /\ ~Warned
         /\ \A f \in ToSet(files) : "last_commit" \in DOMAIN metadata[f]
         /\ AfterMetadata => FilesAsked(calls, "log-date") = files

\* a run that printed its output in auto-fast mode, contributors requested
C6_Witness ==
    /\ pc = "exit" /\ outcome = "printed"
    /\ ~args.fast /\ args.contributors /\ Len(files) > args.limit
    /\ Warned

\* C7: exit behaviour. A run ends as "not a repository", "no tracked files",
\* "no file matches" (all three: exit status 1, nothing on standard output,
\* no metadata query) or with the output printed and exit status 0; progress
\* and warnings never go to standard output.
C7_ExitBehaviour ==
    /\ \A i \in StdoutEvents : events[i].kind \in {"tree", "json"}
    /\ pc = "exit" =>
         /\ outcome \in {"not_a_repository", "no_tracked_files", "no_match",
                         "printed"}
         /\ outcome # "printed" => StdoutEvents = {} /\ PerFileCalls = {}
         /\ outcome = "printed" => StdoutEvents = {Len(events)}

\* the i-th smallest element of a set of numbers
Nth(I, k) == CHOOSE i \in I : Cardinality({j \in I : j < i}) = k - 1

\* out is the sub-list of fs made of the entries that are in S
IsSelection(out, fs, S) ==
    LET I == {i \in 1..Len(fs) : fs[i] \in S}
    IN /\ Len(out) = Cardinality(I)
       /\ \A k \in 1..Len(out) : out[k] = fs[Nth(I, k)]

\* C8: fail-open date filter. A failed query leaves the file list as it was;
\* a successful one leaves, in their order, exactly the entries the backend
\* named, and no path that was not in the list.
C8_FailOpen ==
    [][pc = "since_wait" =>
         /\ proc.result = "fail" => files' = files
         /\ proc.result = "ok" =>
              /\ IsSelection(files', files, ToSet(StrippedLines(proc.stdout)))
              /\ ToSet(files') \subseteq ToSet(files)]_vars

\* the filter has failed on a list of two files, and both are still there
C8_Witness ==
    /\ pc = "ext" /\ proc.cmd = "log-since" /\ proc.result = "fail"
    /\ Len(files) = 2

\* C9: bounded external calls. Every subprocess.run is given a timeout, so
\* no run waits on a process that never ends.
C9_BoundedCalls ==
    /\ \A i \in 1..Len(calls) : calls[i].timeout # NoTimeout
    /\ ~(Waiting /\ proc.result = "late" /\ proc.timeout = NoTimeout)

====
